---------------------------- MODULE Spec2Model ----------------------------
(***************************************************************************)
(* Cursor-lag analysis of src/analyze_lag.py: extraction of dispatch and   *)
(* render events from a log, strategy selection, the Sequence Matcher      *)
(* (match_by_sequence), the Window Matcher (match_by_timestamp_improved)   *)
(* and the statistics step of parse_cursor_logs.                           *)
(*                                                                         *)
(* Captured regex groups are texts: sequences of one-character strings.    *)
(* Beats are floats in the program; the model keeps them in thousandths    *)
(* (1.005 is 1005). The beat texts of the model are chosen so that every   *)
(* comparison of their doubles (difference against 0.01, scores) comes out *)
(* as the comparison of the thousandths; decimal texts such as 0.03 and    *)
(* 0.02, whose doubles differ by less than 0.01, are not among them.       *)
(***************************************************************************)
EXTENDS Integers, Sequences, FiniteSets, TLC

(***************************************************************************)
(* Bounds of the model: the number of dispatch and render records the log  *)
(* contains.                                                               *)
(***************************************************************************)
MaxDispatches == 2

MaxRenders == 2

\* the number of matched pairs handed to the report step on its own
MaxPairs == 12

(***************************************************************************)
(* Program constants.                                                      *)
(***************************************************************************)
\* MAX_TIME_WINDOW_MS = 200
MAX_TIME_WINDOW_MS == 200

\* score = time_diff + (beat_diff * 50)
BEAT_PENALTY == 50

\* abs(d_beat - r_beat) < 0.01, in thousandths of a beat
BEAT_TOLERANCE == 10

\* the slices [:10] of the worst and best lists
TOP_N == 10

(***************************************************************************)
(* Conversions of captured text.                                           *)
(***************************************************************************)
DigitVal(c) ==
    CASE c = "0" -> 0 [] c = "1" -> 1 [] c = "2" -> 2 [] c = "3" -> 3
      [] c = "4" -> 4 [] c = "5" -> 5 [] c = "6" -> 6 [] c = "7" -> 7
      [] c = "8" -> 8 [] c = "9" -> 9

RECURSIVE IntOf(_)
\* int(text) for a text matched by \d+ (also used on the digit runs of a float)
IntOf(s) ==
    IF s = <<>> THEN 0
    ELSE IntOf(SubSeq(s, 1, Len(s) - 1)) * 10 + DigitVal(s[Len(s)])

Dots(s) == {i \in 1..Len(s) : s[i] = "."}

\* float(text) raises ValueError on a text matched by [\d.]+ that has more
\* than one dot or no digit at all
FloatOk(s) == Cardinality(Dots(s)) <= 1 /\ Cardinality(Dots(s)) < Len(s)

\* float(text) in thousandths, for a text with at most three decimals
FloatOf(s) ==
    LET p    == IF Dots(s) = {} THEN Len(s) + 1 ELSE CHOOSE i \in Dots(s) : TRUE
        ip   == SubSeq(s, 1, p - 1)
        fr   == SubSeq(s, p + 1, Len(s))
        fr3  == SubSeq(fr \o <<"0", "0", "0">>, 1, 3)
    IN  IntOf(ip) * 1000 + IntOf(fr3)

Abs(x) == IF x < 0 THEN -x ELSE x

(***************************************************************************)
(* The records a log of the model can contain, as the tuples re.findall    *)
(* returns: (beat, audio_time, dispatch_time, seq) and                     *)
(* (beat, render_time, seq); seq is the empty text when the optional       *)
(* group did not match.                                                    *)
(***************************************************************************)
DispatchTuple(b, a, t, s) == [beat |-> b, audio_time |-> a, dispatch_time |-> t, seq |-> s]

RenderTuple(b, t, s) == [beat |-> b, render_time |-> t, seq |-> s]

DispatchRecords ==
    { DispatchTuple(<<"1", ".", "0">>, <<"0", ".", "5">>, <<"1", "0", "0">>, <<>>),
      DispatchTuple(<<"2", ".", "0">>, <<"0", ".", "5">>, <<"1", "1", "0">>, <<>>),
      DispatchTuple(<<"1", ".", "0">>, <<"0", ".", "5">>, <<"1", "0", "0">>, <<"0">>),
      DispatchTuple(<<"2", ".", "0">>, <<"0", ".", "5">>, <<"1", "1", "0">>, <<"0">>),
      DispatchTuple(<<"1", ".", "0", "1">>, <<"0", ".", "5">>, <<"1", "1", "0">>, <<"0">>),
      DispatchTuple(<<"2", ".", "0">>, <<"0", ".", "5">>, <<"1", "1", "0">>, <<"1">>),
      DispatchTuple(<<"1", ".", "2", ".", "3">>, <<"0", ".", "5">>, <<"1", "1", "0">>, <<"1">>) }

RenderRecords ==
    { RenderTuple(<<"2", ".", "0">>, <<"1", "0", "0">>, <<>>),
      RenderTuple(<<"1", ".", "0">>, <<"1", "4", "0">>, <<>>),
      RenderTuple(<<"1", ".", "0">>, <<"3", "0", "0">>, <<"0">>),
      RenderTuple(<<"1", ".", "0">>, <<"3", "0", "1">>, <<>>),
      RenderTuple(<<"1", ".", "0", "0", "5">>, <<"9", "0">>, <<"0">>),
      RenderTuple(<<"2", ".", "0">>, <<"1", "9", "0">>, <<"1">>) }

VARIABLES
    pc,              \* position in parse_cursor_logs and the matcher it called
    dispatches,      \* re.findall(dispatch_pattern, content)
    renders,         \* re.findall(render_pattern, content)
    has_seq,         \* line 39
    called,          \* the matcher parse_cursor_logs has called, or "none"
    dispatch_by_seq, \* match_by_sequence: seq id -> (beat, dispatch_time, audio_time)
    render_by_seq,   \* match_by_sequence: seq id -> (beat, render_time)
    seq_todo,        \* match_by_sequence: sorted(dispatch_by_seq.keys()) still to visit
    dispatch_events, \* match_by_timestamp_improved: sorted (time, beat, audio_time)
    render_events,   \* match_by_timestamp_improved: sorted (time, beat)
    d_index,         \* match_by_timestamp_improved: position of the dispatch loop
    used_renders,    \* match_by_timestamp_improved: consumed render indices
    lags,            \* the matcher's lags list
    matched_beats,   \* the matcher's (d_beat, d_time, r_time, lag) list
    unmatched,       \* the matcher's (d_beat, d_time) list
    matched_key,     \* per matched pair: the seq id, or the render index idx, it came from
    unmatched_key,   \* per unmatched dispatch: the seq id, or the dispatch position
    stats,           \* the figures of the statistics step
    report,          \* the report sections printed so far
    worst,           \* the worst list of line 87
    best,            \* the best list of line 94
    argv_file,       \* the command line: no path, or the state of the file named
    exit_code        \* <<>> while the process runs, then its exit code

vars == <<pc, dispatches, renders, has_seq, called, dispatch_by_seq, render_by_seq,
          seq_todo, dispatch_events, render_events, d_index, used_renders, lags,
          matched_beats, unmatched, matched_key, unmatched_key, stats, report,
          worst, best, argv_file, exit_code>>

matcher_vars == <<dispatch_by_seq, render_by_seq, seq_todo, dispatch_events,
                  render_events, d_index, used_renders, lags, matched_beats,
                  unmatched, matched_key, unmatched_key>>

list_vars == <<worst, best>>

env_vars == <<argv_file, exit_code>>

EmptyMap == [k \in {} |-> 0]

NoStats == [count |-> 0, min |-> 0, max |-> 0, sum |-> 0, median2 |-> 0,
            excellent |-> 0, good |-> 0, acceptable |-> 0, poor |-> 0,
            negative |-> 0]

Init ==
    /\ pc = "findall"
    /\ dispatches = <<>>
    /\ renders = <<>>
    /\ has_seq = FALSE
    /\ called = "none"
    /\ dispatch_by_seq = EmptyMap
    /\ render_by_seq = EmptyMap
    /\ seq_todo = <<>>
    /\ dispatch_events = <<>>
    /\ render_events = <<>>
    /\ d_index = 0
    /\ used_renders = {}
    /\ lags = <<>>
    /\ matched_beats = <<>>
    /\ unmatched = <<>>
    /\ matched_key = <<>>
    /\ unmatched_key = <<>>
    /\ stats = NoStats
    /\ report = {}
    /\ worst = <<>>
    /\ best = <<>>
    /\ argv_file = "readable"
    /\ exit_code = <<>>

(***************************************************************************)
(* Extraction: re.findall scans the content and appends one tuple per      *)
(* record of the log, in the order of the text.                            *)
(***************************************************************************)
FindDispatch ==
    /\ pc = "findall"
    /\ Len(dispatches) < MaxDispatches
    /\ \E d \in DispatchRecords : dispatches' = Append(dispatches, d)
    /\ UNCHANGED <<env_vars, list_vars, pc, renders, has_seq, called, matcher_vars, stats, report>>

FindRender ==
    /\ pc = "findall"
    /\ Len(renders) < MaxRenders
    /\ \E r \in RenderRecords : renders' = Append(renders, r)
    /\ UNCHANGED <<env_vars, list_vars, pc, dispatches, has_seq, called, matcher_vars, stats, report>>

\* lines 30-32
NoDispatches ==
    /\ pc = "findall"
    /\ dispatches = <<>>
    /\ report' = report \cup {"EmptyStream"}
    /\ pc' = "returned"
    /\ UNCHANGED <<env_vars, list_vars, dispatches, renders, has_seq, called, matcher_vars, stats>>

\* mutant of NoRenders: the run goes on to the Window Matcher
NoRenders_Missing ==
    /\ pc = "findall"
    /\ dispatches # <<>>
    /\ renders = <<>>
    /\ called' = "match_by_timestamp_improved"
    /\ pc' = called'
    /\ UNCHANGED <<env_vars, list_vars, dispatches, renders, has_seq, matcher_vars, stats, report>>

\* lines 34-36
NoRenders ==
    /\ pc = "findall"
    /\ dispatches # <<>>
    /\ renders = <<>>
    /\ report' = report \cup {"EmptyStream"}
    /\ pc' = "returned"
    /\ UNCHANGED <<env_vars, list_vars, dispatches, renders, has_seq, called, matcher_vars, stats>>

\* mutant of HasSeq: the last dispatch is examined instead of the first
HasSeq_Last(ds) == ds[Len(ds)].seq # <<>>

\* line 39: has_seq = dispatches[0][3] != ''
HasSeq(ds) == ds[1].seq # <<>>

\* lines 38-47
SelectStrategy ==
    /\ pc = "findall"
    /\ dispatches # <<>>
    /\ renders # <<>>
    /\ has_seq' = HasSeq(dispatches)
    /\ called' = IF has_seq' THEN "match_by_sequence" ELSE "match_by_timestamp_improved"
    /\ pc' = called'
    /\ UNCHANGED <<env_vars, list_vars, dispatches, renders, matcher_vars, stats, report>>

(***************************************************************************)
(* Sequence Matcher: match_by_sequence.                                    *)
(***************************************************************************)
RECURSIVE DispatchBySeq_FirstWins(_)
\* mutant of DispatchBySeq: the first tuple with an id is kept
DispatchBySeq_FirstWins(ds) ==
    IF ds = <<>> THEN EmptyMap
    ELSE LET m == DispatchBySeq_FirstWins(SubSeq(ds, 1, Len(ds) - 1))
             e == ds[Len(ds)]
         IN  IF e.seq # <<>>
             THEN m @@ (IntOf(e.seq) :> [beat |-> FloatOf(e.beat),
                                         time |-> IntOf(e.dispatch_time),
                                         audio_time |-> FloatOf(e.audio_time)])
             ELSE m

RECURSIVE DispatchBySeq(_)
\* lines 163-165: later tuples overwrite earlier ones with the same int(seq)
DispatchBySeq(ds) ==
    IF ds = <<>> THEN EmptyMap
    ELSE LET m == DispatchBySeq(SubSeq(ds, 1, Len(ds) - 1))
             e == ds[Len(ds)]
         IN  IF e.seq # <<>>
             THEN (IntOf(e.seq) :> [beat |-> FloatOf(e.beat),
                                    time |-> IntOf(e.dispatch_time),
                                    audio_time |-> FloatOf(e.audio_time)]) @@ m
             ELSE m

RECURSIVE RenderBySeq(_)
\* lines 167-169
RenderBySeq(rs) ==
    IF rs = <<>> THEN EmptyMap
    ELSE LET m == RenderBySeq(SubSeq(rs, 1, Len(rs) - 1))
             e == rs[Len(rs)]
         IN  IF e.seq # <<>>
             THEN (IntOf(e.seq) :> [beat |-> FloatOf(e.beat),
                                    time |-> IntOf(e.render_time)]) @@ m
             ELSE m

\* the float() calls of lines 165 and 169 all succeed
SeqParseOk(ds, rs) ==
    /\ \A i \in 1..Len(ds) :
          ds[i].seq # <<>> => FloatOk(ds[i].beat) /\ FloatOk(ds[i].audio_time)
    /\ \A i \in 1..Len(rs) : rs[i].seq # <<>> => FloatOk(rs[i].beat)

RECURSIVE SortedKeys(_)
\* sorted(dispatch_by_seq.keys())
SortedKeys(S) ==
    IF S = {} THEN <<>>
    ELSE LET m == CHOOSE x \in S : \A y \in S : x <= y
         IN  <<m>> \o SortedKeys(S \ {m})

\* mutant of BeatsAgree: a difference of exactly 0.01 agrees too
BeatsAgree_Inclusive(d_beat, r_beat) == Abs(d_beat - r_beat) <= BEAT_TOLERANCE

\* line 178: abs(d_beat - r_beat) < 0.01
BeatsAgree(d_beat, r_beat) == Abs(d_beat - r_beat) < BEAT_TOLERANCE

\* mutant of SeqLag: the operands are swapped
SeqLag_Swapped(r_time, d_time) == d_time - r_time

\* mutant of SeqLag: a negative lag is clamped to zero
SeqLag_Clamped(r_time, d_time) == IF r_time < d_time THEN 0 ELSE r_time - d_time

\* line 179: lag = r_time - d_time
SeqLag(r_time, d_time) == r_time - d_time

\* lines 155-169
SeqBuild ==
    /\ pc = "match_by_sequence"
    /\ SeqParseOk(dispatches, renders)
    /\ dispatch_by_seq' = DispatchBySeq(dispatches)
    /\ render_by_seq' = RenderBySeq(renders)
    /\ seq_todo' = SortedKeys(DOMAIN dispatch_by_seq')
    /\ pc' = "seq_loop"
    /\ UNCHANGED <<env_vars, list_vars, dispatches, renders, has_seq, called, dispatch_events, render_events,
                   d_index, used_renders, lags, matched_beats, unmatched, matched_key,
                   unmatched_key, stats, report>>

\* a float() of lines 165 or 169 raises ValueError, which nothing catches
SeqBuildRaises ==
    /\ pc = "match_by_sequence"
    /\ ~SeqParseOk(dispatches, renders)
    /\ pc' = "raised"
    /\ UNCHANGED <<env_vars, list_vars, dispatches, renders, has_seq, called, matcher_vars, stats, report>>

\* lines 172-181, one iteration: the id has a render and the beats agree
SeqMatch ==
    /\ pc = "seq_loop"
    /\ seq_todo # <<>>
    /\ LET seq == Head(seq_todo) IN
       /\ seq \in DOMAIN render_by_seq
       /\ LET d == dispatch_by_seq[seq]
              r == render_by_seq[seq]
              lag == SeqLag(r.time, d.time)
          IN  /\ BeatsAgree(d.beat, r.beat)
              /\ lags' = Append(lags, lag)
              /\ matched_beats' = Append(matched_beats,
                     [beat |-> d.beat, d_time |-> d.time, r_time |-> r.time, lag |-> lag])
              /\ matched_key' = Append(matched_key, seq)
    /\ seq_todo' = Tail(seq_todo)
    /\ UNCHANGED <<env_vars, list_vars, pc, dispatches, renders, has_seq, called, dispatch_by_seq,
                   render_by_seq, dispatch_events, render_events, d_index, used_renders,
                   unmatched, unmatched_key, stats, report>>

\* lines 172-178, one iteration: the id has a render and the beats disagree
SeqBeatMismatch ==
    /\ pc = "seq_loop"
    /\ seq_todo # <<>>
    /\ LET seq == Head(seq_todo) IN
       /\ seq \in DOMAIN render_by_seq
       /\ ~BeatsAgree(dispatch_by_seq[seq].beat, render_by_seq[seq].beat)
    /\ seq_todo' = Tail(seq_todo)
    /\ UNCHANGED <<env_vars, list_vars, pc, dispatches, renders, has_seq, called, dispatch_by_seq,
                   render_by_seq, dispatch_events, render_events, d_index, used_renders,
                   lags, matched_beats, unmatched, matched_key, unmatched_key, stats,
                   report>>

\* mutant of SeqUnmatched: the id without a render is skipped without a record
SeqUnmatched_Dropped ==
    /\ pc = "seq_loop"
    /\ seq_todo # <<>>
    /\ Head(seq_todo) \notin DOMAIN render_by_seq
    /\ seq_todo' = Tail(seq_todo)
    /\ UNCHANGED <<env_vars, list_vars, pc, dispatches, renders, has_seq, called, dispatch_by_seq,
                   render_by_seq, dispatch_events, render_events, d_index, used_renders,
                   lags, matched_beats, unmatched, matched_key, unmatched_key, stats,
                   report>>

\* lines 182-184, one iteration: the id has no render
SeqUnmatched ==
    /\ pc = "seq_loop"
    /\ seq_todo # <<>>
    /\ LET seq == Head(seq_todo) IN
       /\ seq \notin DOMAIN render_by_seq
       /\ unmatched' = Append(unmatched, [beat |-> dispatch_by_seq[seq].beat,
                                          d_time |-> dispatch_by_seq[seq].time])
       /\ unmatched_key' = Append(unmatched_key, seq)
    /\ seq_todo' = Tail(seq_todo)
    /\ UNCHANGED <<env_vars, list_vars, pc, dispatches, renders, has_seq, called, dispatch_by_seq,
                   render_by_seq, dispatch_events, render_events, d_index, used_renders,
                   lags, matched_beats, matched_key, stats, report>>

\* line 186 and the assignment of line 43
SeqReturn ==
    /\ pc = "seq_loop"
    /\ seq_todo = <<>>
    /\ pc' = "matched"
    /\ UNCHANGED <<env_vars, list_vars, dispatches, renders, has_seq, called, matcher_vars, stats, report>>

(***************************************************************************)
(* Window Matcher: match_by_timestamp_improved.                            *)
(* Events are the tuples of the program: (time, beat, audio_time) and      *)
(* (time, beat). Render indices are 1-based here, 0-based in the program.  *)
(***************************************************************************)
\* tuple comparison of list.sort(): lexicographic
TupleLess(a, b) ==
    \E i \in 1..Len(a) : a[i] < b[i] /\ \A j \in 1..(i - 1) : a[j] = b[j]

RECURSIVE InsertSorted(_, _)
InsertSorted(x, s) ==
    IF s = <<>> THEN <<x>>
    ELSE IF TupleLess(x, Head(s)) THEN <<x>> \o s
    ELSE <<Head(s)>> \o InsertSorted(x, Tail(s))

\* mutant of SortTuples: the list is left in the order of the text
SortTuples_None(s) == s

RECURSIVE SortTuples(_)
\* lines 206-207: list.sort() (stable, ascending)
SortTuples(s) ==
    IF s = <<>> THEN <<>>
    ELSE InsertSorted(s[Len(s)], SortTuples(SubSeq(s, 1, Len(s) - 1)))

\* lines 199-200
DispatchEvents(ds) ==
    [i \in 1..Len(ds) |->
        <<IntOf(ds[i].dispatch_time), FloatOf(ds[i].beat), FloatOf(ds[i].audio_time)>>]

\* lines 202-203
RenderEvents(rs) ==
    [i \in 1..Len(rs) |-> <<IntOf(rs[i].render_time), FloatOf(rs[i].beat)>>]

\* the float() calls of lines 200 and 203 all succeed
WinParseOk(ds, rs) ==
    /\ \A i \in 1..Len(ds) : FloatOk(ds[i].beat) /\ FloatOk(ds[i].audio_time)
    /\ \A i \in 1..Len(rs) : FloatOk(rs[i].beat)

\* mutant of NotUsed: the used-render check is missing
NotUsed_Ignored(i, used) == TRUE

\* lines 227-228: the render is not consumed yet
NotUsed(i, used) == i \notin used

\* mutant of NotBefore: the causality check is missing
NotBefore_Dropped(r_time, d_time) == TRUE

\* lines 231-232: the render is not before the dispatch
NotBefore(r_time, d_time) == ~(r_time < d_time)

\* mutant of InWindow: the window is one millisecond too narrow
InWindow_TooNarrow(r_time, d_time) == ~(r_time - d_time >= MAX_TIME_WINDOW_MS)

\* mutant of InWindow: the window is one millisecond too wide
InWindow_OffByOne(r_time, d_time) == ~(r_time - d_time > MAX_TIME_WINDOW_MS + 1)

\* lines 235-237: the render is within the time window
InWindow(r_time, d_time) == ~(r_time - d_time > MAX_TIME_WINDOW_MS)

\* lines 240-243, in thousandths of a millisecond
Score(r_time, r_beat, d_time, d_beat) ==
    (r_time - d_time) * 1000 + Abs(r_beat - d_beat) * BEAT_PENALTY

\* mutant of Better: a candidate of equal score replaces the best one too
Better_OrEqual(score, best_match, best_score) == best_match = 0 \/ score <= best_score

\* line 245: the candidate replaces the best one so far (best_match = 0 is None,
\* whose best_score is float('inf'))
Better(score, best_match, best_score) == best_match = 0 \/ score < best_score

RECURSIVE ScanRenders(_, _, _, _, _, _)
\* lines 226-247: the scan of render_events from position i on; the result is
\* the index of best_match, 0 for None
ScanRenders(i, res, d, used, best_match, best_score) ==
    IF i > Len(res) THEN best_match
    ELSE LET r_time == res[i][1]
             r_beat == res[i][2]
             score  == Score(r_time, r_beat, d[1], d[2])
         IN  IF /\ NotUsed(i, used)
                /\ NotBefore(r_time, d[1])
                /\ InWindow(r_time, d[1])
                /\ Better(score, best_match, best_score)
             THEN ScanRenders(i + 1, res, d, used, i, score)
             ELSE ScanRenders(i + 1, res, d, used, best_match, best_score)

\* lines 223-247
BestMatch(res, d, used) == ScanRenders(1, res, d, used, 0, 0)

\* line 251: used_renders.add(idx)
AddUsed(used, idx) == used \cup {idx}

RECURSIVE WinLoop(_, _, _, _, _, _)
\* lines 222-257: the dispatch loop from position i on, as a function; the
\* result is (matched_beats, unmatched)
WinLoop(des, res, i, used, mb, um) ==
    IF i > Len(des) THEN <<mb, um>>
    ELSE LET d   == des[i]
             idx == BestMatch(res, d, used)
         IN  IF idx # 0
             THEN WinLoop(des, res, i + 1, AddUsed(used, idx),
                          Append(mb, [beat |-> d[2], d_time |-> d[1],
                                      r_time |-> res[idx][1],
                                      lag |-> res[idx][1] - d[1]]),
                          um)
             ELSE WinLoop(des, res, i + 1, used, mb,
                          Append(um, [beat |-> d[2], d_time |-> d[1]]))

\* lines 196-257: match_by_timestamp_improved(dispatches, renders) as a
\* function of its two arguments, for tuples float() parses
MatchByTimestamp(ds, rs) ==
    WinLoop(SortTuples(DispatchEvents(ds)), SortTuples(RenderEvents(rs)), 1, {},
            <<>>, <<>>)

\* lines 196-219
WinBuild ==
    /\ pc = "match_by_timestamp_improved"
    /\ WinParseOk(dispatches, renders)
    /\ dispatch_events' = SortTuples(DispatchEvents(dispatches))
    /\ render_events' = SortTuples(RenderEvents(renders))
    /\ d_index' = 1
    /\ pc' = "win_loop"
    /\ UNCHANGED <<env_vars, list_vars, dispatches, renders, has_seq, called, dispatch_by_seq, render_by_seq,
                   seq_todo, used_renders, lags, matched_beats, unmatched, matched_key,
                   unmatched_key, stats, report>>

\* a float() of lines 200 or 203 raises ValueError, which nothing catches
WinBuildRaises ==
    /\ pc = "match_by_timestamp_improved"
    /\ ~WinParseOk(dispatches, renders)
    /\ pc' = "raised"
    /\ UNCHANGED <<env_vars, list_vars, dispatches, renders, has_seq, called, matcher_vars, stats, report>>

\* lines 222-253, one iteration of the dispatch loop that finds a best match
WinMatch ==
    /\ pc = "win_loop"
    /\ d_index <= Len(dispatch_events)
    /\ LET d   == dispatch_events[d_index]
           idx == BestMatch(render_events, d, used_renders)
       IN  /\ idx # 0
           /\ LET r_time == render_events[idx][1]
                  lag    == r_time - d[1]
              IN  /\ used_renders' = AddUsed(used_renders, idx)
                  /\ lags' = Append(lags, lag)
                  /\ matched_beats' = Append(matched_beats,
                        [beat |-> d[2], d_time |-> d[1], r_time |-> r_time, lag |-> lag])
                  /\ matched_key' = Append(matched_key, idx)
    /\ d_index' = d_index + 1
    /\ UNCHANGED <<env_vars, list_vars, pc, dispatches, renders, has_seq, called, dispatch_by_seq,
                   render_by_seq, seq_todo, dispatch_events, render_events, unmatched,
                   unmatched_key, stats, report>>

\* mutant of WinUnmatched: the dispatch without a candidate leaves no record
WinUnmatched_Dropped ==
    /\ pc = "win_loop"
    /\ d_index <= Len(dispatch_events)
    /\ BestMatch(render_events, dispatch_events[d_index], used_renders) = 0
    /\ d_index' = d_index + 1
    /\ UNCHANGED <<env_vars, list_vars, pc, dispatches, renders, has_seq, called,
                   dispatch_by_seq, render_by_seq, seq_todo, dispatch_events,
                   render_events, used_renders, lags, matched_beats, unmatched,
                   matched_key, unmatched_key, stats, report>>

\* lines 222-247 and 254-255, one iteration that finds no candidate
WinUnmatched ==
    /\ pc = "win_loop"
    /\ d_index <= Len(dispatch_events)
    /\ LET d == dispatch_events[d_index] IN
       /\ BestMatch(render_events, d, used_renders) = 0
       /\ unmatched' = Append(unmatched, [beat |-> d[2], d_time |-> d[1]])
       /\ unmatched_key' = Append(unmatched_key, d_index)
    /\ d_index' = d_index + 1
    /\ UNCHANGED <<env_vars, list_vars, pc, dispatches, renders, has_seq, called, dispatch_by_seq,
                   render_by_seq, seq_todo, dispatch_events, render_events, used_renders,
                   lags, matched_beats, matched_key, stats, report>>

\* line 257 and the assignment of line 47
WinReturn ==
    /\ pc = "win_loop"
    /\ d_index > Len(dispatch_events)
    /\ pc' = "matched"
    /\ UNCHANGED <<env_vars, list_vars, dispatches, renders, has_seq, called, matcher_vars, stats, report>>

(***************************************************************************)
(* parse_cursor_logs after the matcher has returned.                       *)
(***************************************************************************)
\* mutant of NoMatches: the empty list falls through to the report
NoMatches_FallsThrough ==
    /\ pc = "matched"
    /\ lags = <<>>
    /\ report' = report \cup {"Statistics", "Breakdown"}
    /\ pc' = "breakdown_done"
    /\ UNCHANGED <<env_vars, list_vars, dispatches, renders, has_seq, called, matcher_vars, stats>>

\* lines 49-54
NoMatches ==
    /\ pc = "matched"
    /\ lags = <<>>
    /\ report' = report \cup {"NoMatches"}
    /\ pc' = "returned"
    /\ UNCHANGED <<env_vars, list_vars, dispatches, renders, has_seq, called, matcher_vars, stats>>

RECURSIVE SumOf(_)
SumOf(ls) == IF ls = <<>> THEN 0 ELSE Head(ls) + SumOf(Tail(ls))

\* min(lags), max(lags)
MinOf(ls) == CHOOSE x \in {ls[i] : i \in 1..Len(ls)} : \A i \in 1..Len(ls) : x <= ls[i]

MaxOf(ls) == CHOOSE x \in {ls[i] : i \in 1..Len(ls)} : \A i \in 1..Len(ls) : x >= ls[i]

\* twice statistics.median(lags): the middle value, or the mean of the two
\* middle values, of the sorted list
Median2Of(ls) ==
    LET s == SortTuples([i \in 1..Len(ls) |-> <<ls[i]>>])
        n == Len(ls)
    IN  IF n % 2 = 1 THEN 2 * s[(n + 1) \div 2][1]
        ELSE s[n \div 2][1] + s[n \div 2 + 1][1]

\* mutant of Excellent: the lower bound 0 is missing
Excellent_NoLowerBound(ls) == Cardinality({i \in 1..Len(ls) : ls[i] < 16})

\* line 67: sum(1 for lag in lags if 0 <= lag < 16)
Excellent(ls) == Cardinality({i \in 1..Len(ls) : 0 <= ls[i] /\ ls[i] < 16})

\* line 68
Good(ls) == Cardinality({i \in 1..Len(ls) : 16 <= ls[i] /\ ls[i] < 50})

\* line 69
Acceptable(ls) == Cardinality({i \in 1..Len(ls) : 50 <= ls[i] /\ ls[i] < 100})

\* line 70
Poor(ls) == Cardinality({i \in 1..Len(ls) : ls[i] >= 100})

\* line 71
Negative(ls) == Cardinality({i \in 1..Len(ls) : ls[i] < 0})

\* lines 56-80: summary figures and the performance breakdown
Statistics ==
    /\ pc = "matched"
    /\ lags # <<>>
    /\ stats' = [count |-> Len(lags), min |-> MinOf(lags), max |-> MaxOf(lags),
                 sum |-> SumOf(lags), median2 |-> Median2Of(lags),
                 excellent |-> Excellent(lags), good |-> Good(lags),
                 acceptable |-> Acceptable(lags), poor |-> Poor(lags),
                 negative |-> Negative(lags)]
    /\ report' = report \cup {"Statistics", "Breakdown"}
                        \cup (IF Negative(lags) > 0 THEN {"NegativeBreakdown"} ELSE {})
    /\ pc' = "breakdown_done"
    /\ UNCHANGED <<env_vars, list_vars, dispatches, renders, has_seq, called, matcher_vars>>

\* line 85: positive_matched = [m for m in matched_beats if m[3] >= 0]
PositiveMatched(mb) == SelectSeq(mb, LAMBDA m : m.lag >= 0)

RECURSIVE InsertByLag(_, _)
\* x goes behind every element whose lag is not larger: equal lags keep
\* their order
InsertByLag(x, s) ==
    IF s = <<>> THEN <<x>>
    ELSE IF x.lag < Head(s).lag THEN <<x>> \o s
    ELSE <<Head(s)>> \o InsertByLag(x, Tail(s))

RECURSIVE SortByLag(_)
\* line 94: sorted(positive_matched, key=lambda x: x[3]), a stable sort
SortByLag(s) ==
    IF s = <<>> THEN <<>>
    ELSE InsertByLag(s[Len(s)], SortByLag(SubSeq(s, 1, Len(s) - 1)))

RECURSIVE InsertByLagDesc(_, _)
\* x goes behind every element whose lag is not smaller
InsertByLagDesc(x, s) ==
    IF s = <<>> THEN <<x>>
    ELSE IF x.lag > Head(s).lag THEN <<x>> \o s
    ELSE <<Head(s)>> \o InsertByLagDesc(x, Tail(s))

RECURSIVE ReverseSeq(_)
ReverseSeq(s) == IF s = <<>> THEN <<>> ELSE Append(ReverseSeq(Tail(s)), Head(s))

\* mutant of SortByLagDesc: the ascending sort reversed, which turns equal
\* lags around
SortByLagDesc_Reversed(s) == ReverseSeq(SortByLag(s))

RECURSIVE SortByLagDesc(_)
\* line 87: sorted(positive_matched, key=lambda x: x[3], reverse=True); equal
\* lags keep their order under reverse=True too
SortByLagDesc(s) ==
    IF s = <<>> THEN <<>>
    ELSE InsertByLagDesc(s[Len(s)], SortByLagDesc(SubSeq(s, 1, Len(s) - 1)))

\* the slice [:10]
Take(s, n) == SubSeq(s, 1, IF Len(s) < n THEN Len(s) ELSE n)

\* lines 85-87
WorstOf(mb) == Take(SortByLagDesc(PositiveMatched(mb)), TOP_N)

\* lines 85 and 94
BestOf(mb) == Take(SortByLag(PositiveMatched(mb)), TOP_N)

\* lines 82-151: worst and best lists, negative-lag events, unmatched
\* dispatches and the diagnosis
Diagnosis ==
    /\ pc = "breakdown_done"
    /\ worst' = WorstOf(matched_beats)
    /\ best' = BestOf(matched_beats)
    /\ report' = report \cup {"WorstBest", "Diagnosis"}
                        \cup (IF stats.negative > 0
                              THEN {"NegativeEvents", "NegativeDiagnosis"} ELSE {})
                        \cup (IF unmatched # <<>> THEN {"Unmatched"} ELSE {})
    /\ pc' = "returned"
    /\ UNCHANGED <<env_vars, dispatches, renders, has_seq, called, matcher_vars, stats>>

Next ==
    \/ FindDispatch
    \/ FindRender
    \/ NoDispatches
    \/ NoRenders
    \/ SelectStrategy
    \/ SeqBuild
    \/ SeqBuildRaises
    \/ SeqMatch
    \/ SeqBeatMismatch
    \/ SeqUnmatched
    \/ SeqReturn
    \/ WinBuild
    \/ WinBuildRaises
    \/ WinMatch
    \/ WinUnmatched
    \/ WinReturn
    \/ NoMatches
    \/ Statistics
    \/ Diagnosis

\* parse_cursor_logs from the extraction of a log that was read to its return
Spec == Init /\ [][Next]_vars

(***************************************************************************)
(* The script: the entry point (lines 259-271), the opening of the file    *)
(* (lines 6-11) and the end of the process.                                *)
(***************************************************************************)
InitMain ==
    /\ pc = "main"
    /\ argv_file \in {"no_path", "missing", "unreadable", "readable"}
    /\ exit_code = <<>>
    /\ dispatches = <<>>
    /\ renders = <<>>
    /\ has_seq = FALSE
    /\ called = "none"
    /\ dispatch_by_seq = EmptyMap
    /\ render_by_seq = EmptyMap
    /\ seq_todo = <<>>
    /\ dispatch_events = <<>>
    /\ render_events = <<>>
    /\ d_index = 0
    /\ used_renders = {}
    /\ lags = <<>>
    /\ matched_beats = <<>>
    /\ unmatched = <<>>
    /\ matched_key = <<>>
    /\ unmatched_key = <<>>
    /\ stats = NoStats
    /\ report = {}
    /\ worst = <<>>
    /\ best = <<>>

run_vars == <<dispatches, renders, has_seq, called, matcher_vars, stats, list_vars>>

\* lines 260-269: len(sys.argv) != 2, usage message and sys.exit(1)
Usage ==
    /\ pc = "main"
    /\ argv_file = "no_path"
    /\ report' = report \cup {"Usage"}
    /\ exit_code' = <<1>>
    /\ pc' = "exited"
    /\ UNCHANGED <<argv_file, run_vars>>

\* lines 6-11: open() raises FileNotFoundError, the message is printed and
\* parse_cursor_logs returns
FileNotFound ==
    /\ pc = "main"
    /\ argv_file = "missing"
    /\ report' = report \cup {"FileNotFound"}
    /\ pc' = "returned"
    /\ UNCHANGED <<env_vars, run_vars>>

\* lines 6-9: open() raises another OSError (PermissionError,
\* IsADirectoryError), which the except clause of line 9 does not catch
OpenRaises ==
    /\ pc = "main"
    /\ argv_file = "unreadable"
    /\ pc' = "raised"
    /\ UNCHANGED <<env_vars, run_vars, report>>

\* lines 6-8: the content is read
ReadContent ==
    /\ pc = "main"
    /\ argv_file = "readable"
    /\ pc' = "findall"
    /\ UNCHANGED <<env_vars, run_vars, report>>

\* line 271: parse_cursor_logs has returned and the script ends
ExitNormally ==
    /\ pc = "returned"
    /\ exit_code = <<>>
    /\ exit_code' = <<0>>
    /\ UNCHANGED <<pc, argv_file, run_vars, report>>

\* line 271: an exception leaves parse_cursor_logs and the script; the
\* interpreter prints the traceback and ends with exit code 1
ExitOnException ==
    /\ pc = "raised"
    /\ exit_code = <<>>
    /\ exit_code' = <<1>>
    /\ report' = report \cup {"Traceback"}
    /\ UNCHANGED <<pc, argv_file, run_vars>>

NextMain ==
    \/ Usage
    \/ FileNotFound
    \/ OpenRaises
    \/ ReadContent
    \/ ExitNormally
    \/ ExitOnException
    \/ Next

(***************************************************************************)
(* The report step on its own: parse_cursor_logs from line 49 on, for the  *)
(* lists a Sequence Matcher can return. Pair number n is the join of id    *)
(* n - 1, dispatched at 100 * n with beat 1.0; its lag is drawn from       *)
(* LagValues, and only the first pair can have the negative lag.           *)
(***************************************************************************)
LagValues == {0 - 10, 40, 80}

InitLists ==
    /\ pc = "matched"
    /\ argv_file = "readable"
    /\ exit_code = <<>>
    /\ dispatches = <<>>
    /\ renders = <<>>
    /\ has_seq = TRUE
    /\ called = "match_by_sequence"
    /\ dispatch_by_seq = EmptyMap
    /\ render_by_seq = EmptyMap
    /\ seq_todo = <<>>
    /\ dispatch_events = <<>>
    /\ render_events = <<>>
    /\ d_index = 0
    /\ used_renders = {}
    /\ lags = <<>>
    /\ matched_beats = <<>>
    /\ unmatched = <<>>
    /\ matched_key = <<>>
    /\ unmatched_key = <<>>
    /\ stats = NoStats
    /\ report = {}
    /\ worst = <<>>
    /\ best = <<>>

\* lines 179-181: one more pair in the lists the matcher returns
GivePair ==
    /\ pc = "matched"
    /\ Len(matched_beats) < MaxPairs
    /\ \E lag \in LagValues :
          LET n == Len(matched_beats) + 1 IN
          /\ lag < 0 => n = 1
          /\ lags' = Append(lags, lag)
          /\ matched_beats' = Append(matched_beats,
                 [beat |-> 1000, d_time |-> 100 * n, r_time |-> 100 * n + lag,
                  lag |-> lag])
          /\ matched_key' = Append(matched_key, n - 1)
    /\ UNCHANGED <<env_vars, list_vars, pc, dispatches, renders, has_seq, called,
                   dispatch_by_seq, render_by_seq, seq_todo, dispatch_events,
                   render_events, d_index, used_renders, unmatched, unmatched_key,
                   stats, report>>

NextLists ==
    \/ GivePair
    \/ NoMatches
    \/ Statistics
    \/ Diagnosis

SpecLists == InitLists /\ [][NextLists]_vars

\* the whole script, from the command line to the exit code
SpecMain == InitMain /\ [][NextMain]_vars

(***************************************************************************)
(* Properties.                                                             *)
(***************************************************************************)
InWindowMatcher == called = "match_by_timestamp_improved"

\* match_by_sequence has returned (its loop over the ids is over)
SeqDone ==
    /\ called = "match_by_sequence"
    /\ pc \in {"matched", "breakdown_done", "returned"}

\* match_by_timestamp_improved has returned
WinDone ==
    /\ called = "match_by_timestamp_improved"
    /\ pc \in {"matched", "breakdown_done", "returned"}

Pairs == 1..Len(matched_beats)

\* the render indices no dispatch has consumed
FreeRenders == (1..Len(render_events)) \ used_renders

\* C1: in the Window Matcher no render index is assigned to two dispatches:
\* the indices of the matched pairs are pairwise distinct, they are exactly
\* the consumed set, and the number of pairs equals the number of consumed
\* indices, in every state of the dispatch loop and after it.
C1_OneToOne ==
    InWindowMatcher =>
        /\ \A i, j \in Pairs : i # j => matched_key[i] # matched_key[j]
        /\ {matched_key[i] : i \in Pairs} = used_renders
        /\ Len(matched_beats) = Cardinality(used_renders)
        /\ Len(lags) = Len(matched_beats)

\* two dispatches were matched and the render the first one consumed was
\* also a candidate (causal and within the window) of the second one
C1_Witness ==
    /\ WinDone
    /\ Len(matched_beats) = 2
    /\ matched_beats[1].r_time >= matched_beats[2].d_time
    /\ matched_beats[1].r_time - matched_beats[2].d_time <= MAX_TIME_WINDOW_MS

\* C2: every pair of the Window Matcher has render_time >= dispatch_time and
\* lag_ms = render_time - dispatch_time >= 0; a render at the very timestamp
\* of a dispatch is a candidate: no dispatch is left unmatched while a render
\* with its timestamp is unconsumed.
C2_Causality ==
    InWindowMatcher =>
        /\ \A i \in Pairs :
              /\ matched_beats[i].r_time >= matched_beats[i].d_time
              /\ matched_beats[i].lag = matched_beats[i].r_time - matched_beats[i].d_time
              /\ matched_beats[i].lag >= 0
              /\ lags[i] >= 0
        /\ \A u \in 1..Len(unmatched) : \A i \in FreeRenders :
              render_events[i][1] # unmatched[u].d_time

\* a pair with lag 0 was produced although a render before the dispatch was
\* there to take
C2_Witness ==
    /\ WinDone
    /\ \E i \in Pairs :
          /\ matched_beats[i].lag = 0
          /\ \E j \in FreeRenders : render_events[j][1] < matched_beats[i].d_time

\* C3: every pair of the Window Matcher has lag_ms <= 200; a render exactly
\* 200 ms after a dispatch is a candidate (no dispatch is left unmatched while
\* such a render is unconsumed) and a render 201 ms after is never its match.
C3_WindowBound ==
    InWindowMatcher =>
        /\ \A i \in Pairs :
              /\ matched_beats[i].lag <= 200
              /\ lags[i] <= 200
              /\ matched_beats[i].r_time - matched_beats[i].d_time # 201
        /\ \A u \in 1..Len(unmatched) : \A i \in FreeRenders :
              render_events[i][1] - unmatched[u].d_time # 200

\* one dispatch took the render 200 ms after it and another one stayed
\* unmatched with a render 201 ms after it unconsumed
C3_Witness ==
    /\ WinDone
    /\ \E i \in Pairs : matched_beats[i].lag = 200
    /\ \E u \in 1..Len(unmatched) : \E i \in FreeRenders :
          render_events[i][1] - unmatched[u].d_time = 201

\* the ids of both maps whose beats agree within 0.01
AgreeingIds ==
    {k \in DOMAIN dispatch_by_seq \cap DOMAIN render_by_seq :
        Abs(dispatch_by_seq[k].beat - render_by_seq[k].beat) < 10}

\* C4: when the Sequence Matcher has returned, every id of both maps whose
\* beats agree within 0.01 has exactly one matched pair, and the lag of that
\* pair is the render time minus the dispatch time of the two mapped events.
C4_ExactJoin ==
    SeqDone =>
        \A k \in AgreeingIds :
            /\ Cardinality({i \in Pairs : matched_key[i] = k}) = 1
            /\ \A i \in Pairs :
                  matched_key[i] = k =>
                     /\ matched_beats[i].lag = render_by_seq[k].time - dispatch_by_seq[k].time
                     /\ lags[i] = render_by_seq[k].time - dispatch_by_seq[k].time
                     /\ matched_beats[i].d_time = dispatch_by_seq[k].time
                     /\ matched_beats[i].r_time = render_by_seq[k].time

\* an id was joined whose beats agree without being equal, with a lag
\* other than zero
C4_Witness ==
    /\ SeqDone
    /\ \E k \in AgreeingIds :
          /\ dispatch_by_seq[k].beat # render_by_seq[k].beat
          /\ dispatch_by_seq[k].time # render_by_seq[k].time
          /\ \E i \in Pairs : matched_key[i] = k

\* C5: when the Sequence Matcher has returned, every dispatch id absent from
\* the render map has exactly one unmatched dispatch and no pair, every pair
\* belongs to an id of both maps, every unmatched dispatch to an id of the
\* dispatch map only, and an id of the render map only has no output.
C5_Completeness ==
    SeqDone =>
        /\ \A k \in DOMAIN dispatch_by_seq \ DOMAIN render_by_seq :
              /\ Cardinality({i \in 1..Len(unmatched) : unmatched_key[i] = k}) = 1
              /\ \A i \in Pairs : matched_key[i] # k
              /\ \A i \in 1..Len(unmatched) :
                    unmatched_key[i] = k =>
                       /\ unmatched[i].d_time = dispatch_by_seq[k].time
                       /\ unmatched[i].beat = dispatch_by_seq[k].beat
        /\ \A i \in Pairs :
              matched_key[i] \in DOMAIN dispatch_by_seq \cap DOMAIN render_by_seq
        /\ \A i \in 1..Len(unmatched) :
              unmatched_key[i] \in DOMAIN dispatch_by_seq \ DOMAIN render_by_seq
        /\ Len(unmatched_key) = Len(unmatched)
        /\ Len(matched_key) = Len(matched_beats)

\* the log has an id on a dispatch only and another id on a render only
C5_Witness ==
    /\ SeqDone
    /\ DOMAIN dispatch_by_seq \ DOMAIN render_by_seq # {}
    /\ DOMAIN render_by_seq \ DOMAIN dispatch_by_seq # {}
    /\ unmatched # <<>>

\* C6, as stated: once the breakdown is computed, the four buckets excellent,
\* good, acceptable and poor add up to the number of lags.
C6_FourBucketsPartition ==
    "Breakdown" \in report =>
        stats.excellent + stats.good + stats.acceptable + stats.poor = Len(lags)

\* C6, amended: the four buckets and the negative count add up to the number
\* of lags; the four buckets alone count exactly the lags >= 0, and the
\* negative count exactly the lags < 0.
C6_FiveClassesPartition ==
    "Breakdown" \in report =>
        /\ stats.excellent + stats.good + stats.acceptable + stats.poor + stats.negative
              = Len(lags)
        /\ stats.excellent + stats.good + stats.acceptable + stats.poor
              = Cardinality({i \in 1..Len(lags) : lags[i] >= 0})
        /\ stats.negative = Cardinality({i \in 1..Len(lags) : lags[i] < 0})
        /\ stats.count = Len(lags)

\* the breakdown of a list with a negative and a non-negative lag
C6_Witness ==
    /\ "Breakdown" \in report
    /\ \E i \in 1..Len(lags) : lags[i] < 0
    /\ \E i \in 1..Len(lags) : lags[i] >= 0

\* some dispatch tuple carries a sequence identifier
SomeSeq == \E i \in 1..Len(dispatches) : dispatches[i].seq # <<>>

\* C7, as stated: the Sequence Matcher is called exactly when some dispatch,
\* at any position, carries a sequence identifier.
C7_AnyDispatchSelects ==
    called # "none" => (called = "match_by_sequence" <=> SomeSeq)

\* C7, amended: the Sequence Matcher is called exactly when the first
\* dispatch of the log carries a sequence identifier; so it is called only
\* when some dispatch carries one, and the Window Matcher is called whenever
\* none does.
C7_FirstDispatchSelects ==
    called # "none" =>
        /\ called = "match_by_sequence" <=> dispatches[1].seq # <<>>
        /\ called = "match_by_timestamp_improved" <=> dispatches[1].seq = <<>>
        /\ called = "match_by_sequence" => SomeSeq
        /\ ~SomeSeq => called = "match_by_timestamp_improved"
        /\ has_seq = (dispatches[1].seq # <<>>)

\* the Window Matcher was chosen although a later dispatch carries an id
C7_Witness ==
    /\ called = "match_by_timestamp_improved"
    /\ dispatches[1].seq = <<>>
    /\ SomeSeq

\* the agreeing ids whose render precedes the dispatch
NegativeIds == {k \in AgreeingIds : render_by_seq[k].time < dispatch_by_seq[k].time}

\* C8: a join of the Sequence Matcher with render_time < dispatch_time is
\* emitted with its negative lag; the statistics count it, their minimum and
\* their sum include it, the negative count counts it, and the report shows
\* the negative count (and, at the end, the negative lags as an anomaly).
C8_NegativeLagSurfaced ==
    SeqDone =>
        \A k \in NegativeIds :
            /\ \E i \in Pairs :
                  /\ matched_key[i] = k
                  /\ matched_beats[i].lag = render_by_seq[k].time - dispatch_by_seq[k].time
                  /\ matched_beats[i].lag < 0
                  /\ lags[i] = matched_beats[i].lag
            /\ pc \in {"breakdown_done", "returned"} =>
                  /\ stats.count = Len(matched_beats)
                  /\ stats.min <= render_by_seq[k].time - dispatch_by_seq[k].time
                  /\ stats.min < 0
                  /\ stats.sum = SumOf([i \in Pairs |-> matched_beats[i].lag])
                  /\ stats.median2 <= 2 * stats.max
                  /\ stats.negative = Cardinality({i \in Pairs : matched_beats[i].lag < 0})
                  /\ stats.negative >= 1
                  /\ "NegativeBreakdown" \in report
            /\ pc = "returned" => {"NegativeEvents", "NegativeDiagnosis"} \subseteq report

\* the run has ended with a negative lag and a positive one in the statistics
C8_Witness ==
    /\ SeqDone
    /\ pc = "returned"
    /\ NegativeIds # {}
    /\ stats.count = 2
    /\ stats.max > 0

\* C9: once extraction is over with no dispatch or no render, the run has
\* returned with the empty-stream report alone: no matcher was called, no
\* lag, statistic or other report section exists, and nothing was raised.
C9_EmptyStream ==
    (pc # "findall" /\ (dispatches = <<>> \/ renders = <<>>)) =>
        /\ pc = "returned"
        /\ report = {"EmptyStream"}
        /\ called = "none"
        /\ stats = NoStats
        /\ lags = <<>> /\ matched_beats = <<>> /\ unmatched = <<>>

\* the run has returned on a log with renders and no dispatch
C9_Witness ==
    /\ pc = "returned"
    /\ dispatches = <<>>
    /\ renders # <<>>
    /\ "EmptyStream" \in report

\* C10: when the matcher has returned no pair, the run returns with the
\* NoMatches report and no statistic; the statistics are only ever computed
\* over a non-empty list of lags.
C10_NoMatches ==
    /\ (called # "none" /\ pc \in {"breakdown_done", "returned"} /\ lags = <<>>) =>
          /\ pc = "returned"
          /\ report = {"NoMatches"}
          /\ stats = NoStats
    /\ (report \cap {"Statistics", "Breakdown", "WorstBest", "Diagnosis"} # {}) =>
          /\ lags # <<>>
          /\ stats.count = Len(lags)
          /\ stats.count > 0
          /\ "NoMatches" \notin report

\* the run has returned NoMatches with unmatched dispatches
C10_Witness ==
    /\ pc = "returned"
    /\ "NoMatches" \in report
    /\ unmatched # <<>>

\* C11: the script ends with exit code 1 and a message when no path is given
\* and when the file named cannot be opened (missing or unreadable), no
\* exception leaves the entry point in these cases, and it ends with exit
\* code 0 only when the file was read and parse_cursor_logs returned.
C11_ExitCodes ==
    /\ argv_file # "readable" => pc # "raised"
    /\ exit_code # <<>> =>
          /\ argv_file \in {"no_path", "missing", "unreadable"} =>
                /\ exit_code = <<1>>
                /\ report \cap {"Usage", "FileNotFound"} # {}
          /\ exit_code = <<0>> => argv_file = "readable" /\ pc = "returned"

\* some record of the log has a numeric field float() does not parse
SomeMalformed ==
    \/ \E i \in 1..Len(dispatches) :
          ~FloatOk(dispatches[i].beat) \/ ~FloatOk(dispatches[i].audio_time)
    \/ \E i \in 1..Len(renders) : ~FloatOk(renders[i].beat)

\* C12: a record whose numeric field does not parse is dropped silently: a
\* log with such a record never makes the run raise, and the run never ends
\* with a traceback.
C12_MalformedDropped ==
    SomeMalformed => pc # "raised" /\ "Traceback" \notin report

\* the positions of the matched pairs with a lag >= 0
PositivePairs == {i \in Pairs : matched_beats[i].lag >= 0}

\* the position of a pair in matched_beats (the first one, if it is repeated)
PosOf(p) == CHOOSE i \in Pairs : matched_beats[i] = p /\ \A j \in 1..(i - 1) : matched_beats[j] # p

\* a comes before b in the worst list (desc) or in the best list
Before(a, b, desc) ==
    \/ IF desc THEN a.lag > b.lag ELSE a.lag < b.lag
    \/ a.lag = b.lag /\ PosOf(a) < PosOf(b)

\* list is the first (up to) 10 of the pairs at the positions P, ordered by
\* lag (descending if desc), equal lags in the order of matched_beats
TopListOf(list, P, desc) ==
    /\ Len(list) = IF Cardinality(P) < 10 THEN Cardinality(P) ELSE 10
    /\ \A j \in 1..Len(list) : \E i \in P : matched_beats[i] = list[j]
    /\ \A j, k \in 1..Len(list) : j < k => Before(list[j], list[k], desc)
    /\ \A i \in P :
          (\A j \in 1..Len(list) : list[j] # matched_beats[i]) =>
             \A j \in 1..Len(list) : Before(list[j], matched_beats[i], desc)

\* C13, as stated: the worst list is the (up to) 10 pairs of largest lag in
\* descending order and the best list the (up to) 10 pairs of smallest lag in
\* ascending order, over all matched pairs, equal lags in matcher order.
C13_TopOfAllPairs ==
    "WorstBest" \in report =>
        /\ TopListOf(worst, Pairs, TRUE)
        /\ TopListOf(best, Pairs, FALSE)

\* C13, amended: the same, over the matched pairs with lag_ms >= 0 only.
C13_TopOfPositivePairs ==
    "WorstBest" \in report =>
        /\ TopListOf(worst, PositivePairs, TRUE)
        /\ TopListOf(best, PositivePairs, FALSE)

\* the lists were cut to 10 of 11 pairs with lag >= 0, among them equal and
\* different lags, beside a pair with a negative lag
C13_Witness ==
    /\ "WorstBest" \in report
    /\ Cardinality(PositivePairs) = 11
    /\ Len(worst) = 10 /\ Len(best) = 10
    /\ \E i \in Pairs : matched_beats[i].lag < 0
    /\ \E i, j \in PositivePairs : i # j /\ matched_beats[i].lag = matched_beats[j].lag
    /\ worst[1].lag # worst[10].lag
    /\ worst[10].lag = best[10].lag

\* Window Matcher: the render indices consumed before pair i was made
UsedBefore(i) == {matched_key[j] : j \in 1..(i - 1)}

\* Window Matcher: the renders that were unconsumed and eligible for pair i
CandidatesOf(i) ==
    {r \in (1..Len(render_events)) \ UsedBefore(i) :
        /\ render_events[r][1] - matched_beats[i].d_time >= 0
        /\ render_events[r][1] - matched_beats[i].d_time <= 200}

\* elapsed_time + 50 * |beat difference| of render r for pair i, times 1000
ScoreFor(i, r) ==
    (render_events[r][1] - matched_beats[i].d_time) * 1000
       + 50 * Abs(render_events[r][2] - matched_beats[i].beat)

\* C14: the render of every pair of the Window Matcher was unconsumed and
\* eligible (0 <= render_time - dispatch_time <= 200) at the dispatch's turn
\* and has the minimal score elapsed_time + 50 * |beat difference| among
\* such renders; among renders of minimal score it has the earliest
\* timestamp.
C14_MinimalScore ==
    InWindowMatcher =>
        \A i \in Pairs :
            /\ matched_key[i] \in CandidatesOf(i)
            /\ matched_beats[i].r_time = render_events[matched_key[i]][1]
            /\ \A r \in CandidatesOf(i) :
                  /\ ScoreFor(i, matched_key[i]) <= ScoreFor(i, r)
                  /\ ScoreFor(i, matched_key[i]) = ScoreFor(i, r) =>
                        render_events[matched_key[i]][1] <= render_events[r][1]

\* a dispatch chose between two eligible renders of equal score and
\* different timestamps
C14_Witness ==
    /\ WinDone
    /\ \E i \in Pairs : \E r \in CandidatesOf(i) :
          /\ ScoreFor(i, r) = ScoreFor(i, matched_key[i])
          /\ render_events[r][1] > render_events[matched_key[i]][1]

\* the permutations of a list
PermutationsOf(s) ==
    {[i \in 1..Len(s) |-> s[f[i]]] :
        f \in {g \in [1..Len(s) -> 1..Len(s)] : \A i, j \in 1..Len(s) : i # j => g[i] # g[j]}}

\* C15: the Window Matcher visits the dispatches in ascending timestamp
\* order whatever their order in the text (so its pairs, and its unmatched
\* dispatches, are in ascending dispatch-time order), and what it returns is
\* what it returns for every permutation of the dispatch list and of the
\* render list.
C15_OrderIndependent ==
    /\ InWindowMatcher =>
          /\ \A i, j \in 1..Len(dispatch_events) :
                i < j => dispatch_events[i][1] <= dispatch_events[j][1]
          /\ \A i, j \in 1..Len(render_events) :
                i < j => render_events[i][1] <= render_events[j][1]
          /\ \A i, j \in Pairs : i < j => matched_beats[i].d_time <= matched_beats[j].d_time
          /\ \A i, j \in 1..Len(unmatched) :
                i < j => unmatched[i].d_time <= unmatched[j].d_time
    /\ (InWindowMatcher /\ pc = "matched") =>
          \A pd \in PermutationsOf(dispatches) : \A pr \in PermutationsOf(renders) :
              MatchByTimestamp(pd, pr) = <<matched_beats, unmatched>>

\* the matcher has returned two pairs for a log whose dispatches and renders
\* are both in descending timestamp order
C15_Witness ==
    /\ InWindowMatcher /\ pc = "matched"
    /\ Len(matched_beats) = 2
    /\ Len(dispatches) = 2 /\ Len(renders) = 2
    /\ IntOf(dispatches[1].dispatch_time) > IntOf(dispatches[2].dispatch_time)
    /\ IntOf(renders[1].render_time) > IntOf(renders[2].render_time)
    /\ matched_beats[1].r_time # matched_beats[2].r_time

\* Window Matcher: the dispatches visited so far
Visited == IF pc = "win_loop" THEN d_index - 1 ELSE Len(dispatch_events)

\* Window Matcher: the positions in dispatch_events of the unmatched dispatches
UnmatchedPositions == {unmatched_key[u] : u \in 1..Len(unmatched)}

\* Window Matcher: the position in dispatch_events of the dispatch of pair i,
\* the i-th visited position that is not unmatched
PairPosition(i) ==
    CHOOSE p \in 1..Visited :
        /\ p \notin UnmatchedPositions
        /\ Cardinality({q \in 1..p : q \notin UnmatchedPositions}) = i

\* Window Matcher: the renders that were unconsumed and within
\* [dispatch_time, dispatch_time + 200] when unmatched dispatch u was visited;
\* the pairs made before it are the first unmatched_key[u] - u ones
CandidatesOfUnmatched(u) ==
    {r \in (1..Len(render_events)) \ UsedBefore(unmatched_key[u] - u + 1) :
        /\ render_events[r][1] >= unmatched[u].d_time
        /\ render_events[r][1] <= unmatched[u].d_time + 200}

\* C16: in the Window Matcher every visited dispatch has exactly one output,
\* a pair or an unmatched dispatch; it is unmatched only if no unconsumed
\* render lay in [dispatch_time, dispatch_time + 200] at its turn and matched
\* only if one did; after the loop pairs plus unmatched dispatches are as
\* many as the input dispatches.
C16_OneOutputPerDispatch ==
    (InWindowMatcher /\ pc # "raised") =>
        /\ Len(matched_beats) + Len(unmatched) = Visited
        /\ WinDone => Len(matched_beats) + Len(unmatched) = Len(dispatches)
        /\ \A u \in 1..Len(unmatched) :
              /\ unmatched_key[u] \in 1..Visited
              /\ \A v \in 1..Len(unmatched) : u < v => unmatched_key[u] < unmatched_key[v]
              /\ unmatched[u].d_time = dispatch_events[unmatched_key[u]][1]
              /\ unmatched[u].beat = dispatch_events[unmatched_key[u]][2]
              /\ CandidatesOfUnmatched(u) = {}
        /\ \A i \in Pairs :
              /\ matched_beats[i].d_time = dispatch_events[PairPosition(i)][1]
              /\ matched_beats[i].beat = dispatch_events[PairPosition(i)][2]
              /\ CandidatesOf(i) # {}

\* one dispatch was matched and a later one is unmatched although a render
\* lies in its window: the earlier dispatch had consumed it
C16_Witness ==
    /\ WinDone
    /\ Len(matched_beats) = 1
    /\ Len(unmatched) = 1
    /\ unmatched_key[1] = 2
    /\ \E r \in used_renders :
          /\ render_events[r][1] >= unmatched[1].d_time
          /\ render_events[r][1] <= unmatched[1].d_time + 200

\* the positions of the dispatch tuples, and of the render tuples, with id k
DispatchesWithId(k) ==
    {i \in 1..Len(dispatches) : dispatches[i].seq # <<>> /\ IntOf(dispatches[i].seq) = k}

RendersWithId(k) ==
    {i \in 1..Len(renders) : renders[i].seq # <<>> /\ IntOf(renders[i].seq) = k}

\* the ids the dispatch tuples carry
DispatchIds ==
    {IntOf(dispatches[i].seq) : i \in {j \in 1..Len(dispatches) : dispatches[j].seq # <<>>}}

LastOf(S) == CHOOSE i \in S : \A j \in S : j <= i

\* the outputs of the Sequence Matcher for id k
PairsOfId(k) == {i \in Pairs : matched_key[i] = k}

UnmatchedOfId(k) == {i \in 1..Len(unmatched) : unmatched_key[i] = k}

\* C17: when the Sequence Matcher has returned, every id has at most one
\* output; a pair is made of the last dispatch and the last render of the
\* text that carry the id, an unmatched dispatch of the last dispatch that
\* carries it, and an id is unmatched only if no render carries it.
C17_LastWins ==
    SeqDone =>
        \A k \in DispatchIds :
            LET d == dispatches[LastOf(DispatchesWithId(k))] IN
            /\ Cardinality(PairsOfId(k)) + Cardinality(UnmatchedOfId(k)) <= 1
            /\ \A i \in PairsOfId(k) :
                  LET r == renders[LastOf(RendersWithId(k))] IN
                  /\ matched_beats[i].d_time = IntOf(d.dispatch_time)
                  /\ matched_beats[i].beat = FloatOf(d.beat)
                  /\ matched_beats[i].r_time = IntOf(r.render_time)
                  /\ matched_beats[i].lag = IntOf(r.render_time) - IntOf(d.dispatch_time)
            /\ \A i \in UnmatchedOfId(k) :
                  /\ unmatched[i].d_time = IntOf(d.dispatch_time)
                  /\ unmatched[i].beat = FloatOf(d.beat)
                  /\ RendersWithId(k) = {}

\* an id on two dispatches of different times and on two renders of
\* different times was joined
C17_Witness ==
    /\ SeqDone
    /\ \E k \in DispatchIds :
          /\ Cardinality(DispatchesWithId(k)) = 2
          /\ Cardinality(RendersWithId(k)) = 2
          /\ dispatches[1].dispatch_time # dispatches[2].dispatch_time
          /\ renders[1].render_time # renders[2].render_time
          /\ PairsOfId(k) # {}

\* render event r is causal and within the window for dispatch event d
EligibleFor(d, r) == r[1] >= d[1] /\ r[1] - d[1] <= 200

\* a one-to-one assignment of renders to all dispatches exists that respects
\* causality and the 200 ms window
FullAssignmentExists ==
    \E f \in [1..Len(dispatch_events) -> 1..Len(render_events)] :
        /\ \A i, j \in 1..Len(dispatch_events) : i # j => f[i] # f[j]
        /\ \A i \in 1..Len(dispatch_events) :
              EligibleFor(dispatch_events[i], render_events[f[i]])

\* C18: the greedy assignment is not optimal (the witness is a run that
\* leaves a dispatch unmatched although all dispatches can be assigned), and
\* the cause is the one stated: whenever the Window Matcher leaves a dispatch
\* unmatched although all dispatches can be assigned, a dispatch visited
\* earlier has consumed a render eligible for the unmatched one.
C18_GreedyLoss ==
    (WinDone /\ FullAssignmentExists) =>
        \A u \in 1..Len(unmatched) :
            \E i \in Pairs :
                /\ PairPosition(i) < unmatched_key[u]
                /\ EligibleFor(dispatch_events[unmatched_key[u]],
                               render_events[matched_key[i]])

\* all dispatches can be assigned, the matcher has left one unmatched, and
\* the earlier dispatch had another eligible render to take
C18_Witness ==
    /\ WinDone
    /\ FullAssignmentExists
    /\ unmatched # <<>>
    /\ \E i \in Pairs : \E r \in FreeRenders :
          EligibleFor(dispatch_events[PairPosition(i)], render_events[r])

\* the ids of both maps whose beats differ by 0.01 or more
DisagreeingIds ==
    {k \in DOMAIN dispatch_by_seq \cap DOMAIN render_by_seq :
        Abs(dispatch_by_seq[k].beat - render_by_seq[k].beat) >= 10}

\* C19: when the Sequence Matcher has returned, an id of both maps whose
\* beats differ by 0.01 or more has neither a pair nor an unmatched dispatch,
\* every output belongs to an id that a dispatch carries, and the outputs are
\* as many as the distinct dispatch ids less the disagreeing ones: never more
\* than the distinct dispatch ids, nor than the dispatch events.
C19_SilentDrops ==
    SeqDone =>
        /\ \A k \in DisagreeingIds : PairsOfId(k) = {} /\ UnmatchedOfId(k) = {}
        /\ \A i \in Pairs : matched_key[i] \in DispatchIds
        /\ \A i \in 1..Len(unmatched) : unmatched_key[i] \in DispatchIds
        /\ Len(matched_beats) + Len(unmatched)
              = Cardinality(DispatchIds) - Cardinality(DisagreeingIds)
        /\ Len(matched_beats) + Len(unmatched) <= Cardinality(DispatchIds)
        /\ Cardinality(DispatchIds) <= Len(dispatches)

\* a log with a dispatch without id and an id whose beats differ by exactly
\* 0.01: fewer outputs than dispatch events
C19_Witness ==
    /\ SeqDone
    /\ \E i \in 1..Len(dispatches) : dispatches[i].seq = <<>>
    /\ \E k \in DisagreeingIds : Abs(dispatch_by_seq[k].beat - render_by_seq[k].beat) = 10
    /\ Len(matched_beats) + Len(unmatched) < Len(dispatches)

=============================================================================
